---- MODULE Spec2Model ----
(***************************************************************************)
(* Authentication / authorization pipeline of the LMS API.                  *)
(*                                                                          *)
(* Two variants live side by side in the sources: the JWT-backed one        *)
(* (models/User, middleware/auth, controllers/authController) and the mock  *)
(* one (a literal users array and "mock-jwt-token-<id>-<ms>" strings).       *)
(* Time is in milliseconds (Date.now()); JWT iat/exp are in seconds.        *)
(***************************************************************************)
EXTENDS Integers, Sequences, FiniteSets, TLC

VARIABLES
  now,        \* Date.now(), milliseconds
  ticks,      \* number of clock advances so far (bounds the run)
  nodeEnv,    \* process.env.NODE_ENV
  users,      \* data/users: the array behind models/User (JWT variant)
  tokens,     \* email -> the JWT the client of that account holds (NoToken: none)
  streak,     \* history: email -> wrong-password logins since the last successful one
  courses,    \* data/courses: the array behind models/Course
  enrollments,\* the records behind models/Enrollment
  mockStore,  \* the users array of the mock controller
  pending,    \* requests suspended at an await, each with the user it built
  out         \* outcome of the last request

vars == <<now, ticks, nodeEnv, users, tokens, streak, courses, enrollments, mockStore, pending, out>>

----------------------------------------------------------------------------
(* Bounds of the exploration *)
MaxTicks == 2
MaxPending == 2
MaxStreak == 6
MaxUsers == 3

(* Program constants *)
StartMs == 1000
NoTime == 0                      \* a null / undefined timestamp (falsy in JS)
MaxAttempts == 5
LockMs == 2 * 60 * 60 * 1000
ExpireSec == 24 * 60 * 60        \* JWT_EXPIRE || '24h'

Roles == {"student", "instructor", "admin"}
Emails == {"a@x.com", "b@x.com"}
RegEmails == {"a@x.com"}         \* the account the requests of Spec register
Passwords == {"Abcdef12", "Xyzuvw34"}
TickSteps == {500, LockMs}
GateTickSteps == {ExpireSec * 1000}

----------------------------------------------------------------------------
(* middleware/errorHandler.js *)

\* first decimal digit of a status code: `${statusCode}`.startsWith('4')
FirstDigit(n) == IF n < 10 THEN n ELSE IF n < 100 THEN n \div 10 ELSE IF n < 1000 THEN n \div 100 ELSE n \div 1000

\* An error value.  ownName: name is an own enumerable property (set in the
\* constructor) and not inherited from the prototype; statusCode 0, status ""
\* and the kinds "undefined" stand for properties the error does not have.
ErrorValue(name, ownName, message) ==
  [name |-> name, ownName |-> ownName, message |-> message, stack |-> <<"stack", message>>,
   statusCode |-> 0, status |-> "", isOperational |-> FALSE,
   code |-> 0, errmsg |-> "undefined", errors |-> "undefined"]

\* AppError whose label is 'fail' for every code below 500
AppErrorBelow500(message, statusCode) ==
  [ErrorValue("Error", FALSE, message) EXCEPT
     !.statusCode = statusCode,
     !.status = IF statusCode < 500 THEN "fail" ELSE "error",
     !.isOperational = TRUE]

AppError(message, statusCode) ==
  [ErrorValue("Error", FALSE, message) EXCEPT
     !.statusCode = statusCode,
     !.status = IF FirstDigit(statusCode) = 4 THEN "fail" ELSE "error",
     !.isOperational = TRUE]

\* a request path, one character per element
ApiUrl == <<"/", "a", "p", "i", "/", "a", "u", "t", "h">>
StartsWith(str, prefix) == Len(str) >= Len(prefix) /\ SubSeq(str, 1, Len(prefix)) = prefix
IsApi(url) == StartsWith(url, <<"/", "a", "p", "i">>)

Timestamp == "ISO8601"                     \* new Date().toISOString()
Generic == "Something went wrong!"

\* res.status(code).json(body) from the error pipeline
Response(code, body) == [statusCode |-> code, body |-> body, threw |-> FALSE]
\* a TypeError thrown inside the handler: nothing was sent by it
Thrown == [statusCode |-> 0, body |-> [thrown |-> "TypeError"], threw |-> TRUE]

\* what JSON.stringify keeps of an Error: its own enumerable properties
ErrorJSON(err) ==
  [statusCode |-> err.statusCode, status |-> err.status, isOperational |-> err.isOperational]

handleCastErrorDB(err) == AppError("Invalid path: value", 400)

\* err.errmsg.match(/(["'])(\\?.)*?\1/)[0]: a TypeError without errmsg, and
\* without a quoted value in it
handleDuplicateFieldsDB(err) ==
  IF err.errmsg = "quoted"
  THEN AppError("Duplicate field value: x. Please use another value!", 400)
  ELSE Thrown

\* Object.values(err.errors): a TypeError without the map
handleValidationErrorDB(err) ==
  IF err.errors = "map" THEN AppError("Invalid input data. m", 400) ELSE Thrown

handleJWTError == AppError("Invalid token. Please log in again!", 401)
handleJWTExpiredError == AppError("Your token has expired! Please log in again.", 401)

\* sendErrorDev with the stack left out of the API body
sendErrorDevNoStack(err, url) ==
  IF IsApi(url)
  THEN Response(err.statusCode,
         [status |-> err.status, error |-> ErrorJSON(err), message |-> err.message,
          timestamp |-> Timestamp])
  ELSE Response(err.statusCode, [title |-> Generic, msg |-> err.message])

sendErrorDev(err, url) ==
  IF IsApi(url)
  THEN Response(err.statusCode,
         [status |-> err.status, error |-> ErrorJSON(err), message |-> err.message,
          stack |-> err.stack, timestamp |-> Timestamp])
  ELSE Response(err.statusCode, [title |-> Generic, msg |-> err.message])

\* sendErrorProd treating every error as a programming error
sendErrorProdGenericOnly(err, url) ==
  IF IsApi(url)
  THEN Response(500, [status |-> "error", message |-> Generic, timestamp |-> Timestamp])
  ELSE Response(err.statusCode, [title |-> Generic, msg |-> "Please try again later."])

sendErrorProd(err, url) ==
  IF IsApi(url)
  THEN IF err.isOperational
       THEN Response(err.statusCode,
              [status |-> err.status, message |-> err.message, timestamp |-> Timestamp])
       ELSE Response(500, [status |-> "error", message |-> Generic, timestamp |-> Timestamp])
  ELSE IF err.isOperational
       THEN Response(err.statusCode, [title |-> Generic, msg |-> err.message])
       ELSE Response(err.statusCode, [title |-> Generic, msg |-> "Please try again later."])

\* { ...err }; error.message = err.message: own enumerable properties and the message
Spread(err) == [err EXCEPT !.name = IF err.ownName THEN @ ELSE "", !.stack = <<>>]

\* the chain of ifs of the production branch; each reads the error the one before left
Translate(err) ==
  LET Ran(e) == e @@ [threw |-> FALSE]
      e1 == IF err.name = "CastError" THEN Ran(handleCastErrorDB(err)) ELSE Ran(err)
      e2 == IF e1.code = 11000 THEN Ran(handleDuplicateFieldsDB(e1)) ELSE e1
      e3 == IF e2.threw THEN e2
            ELSE IF e2.name = "ValidationError" THEN Ran(handleValidationErrorDB(e2)) ELSE e2
      e4 == IF e3.threw THEN e3
            ELSE IF e3.name = "JsonWebTokenError" THEN Ran(handleJWTError) ELSE e3
  IN IF e4.threw THEN e4
     ELSE IF e4.name = "TokenExpiredError" THEN Ran(handleJWTExpiredError) ELSE e4

globalErrorHandler(err, url, env) ==
  LET e == [err EXCEPT !.statusCode = IF @ = 0 THEN 500 ELSE @,
                       !.status = IF @ = "" THEN "error" ELSE @]
  IN IF env = "development" THEN sendErrorDev(e, url)
     ELSE LET error == Translate(Spread(e)) IN
          IF error.threw THEN Thrown ELSE sendErrorProd(error, url)

\* notFound: next(new AppError(...))
notFound(url) == AppError(<<"Can't find on this server!", url>>, 404)

----------------------------------------------------------------------------
(* models/User *)

NoUser == 0

Hash(p) == <<"bcrypt", p>>

comparePassword(candidate, stored) == stored = Hash(candidate)

validatePassword(p) == p \in Passwords

validateRole(r) == r \in Roles

IndexById(us, id) ==
  IF \E i \in 1..Len(us) : us[i].id = id
  THEN CHOOSE i \in 1..Len(us) : us[i].id = id /\ \A j \in 1..(i-1) : us[j].id # id
  ELSE NoUser

IndexByEmail(us, email) ==
  IF \E i \in 1..Len(us) : us[i].email = email
  THEN CHOOSE i \in 1..Len(us) : us[i].email = email /\ \A j \in 1..(i-1) : us[j].email # email
  ELSE NoUser

\* A reset or verification token: the hex string crypto.randomBytes drew
\* (raw), as it is or under sha256.  NoSecret is null / undefined.
NoSecret == [hashed |-> FALSE, raw |-> ""]
randomBytes(name) == [hashed |-> FALSE, raw |-> name]
sha256(tok) == [hashed |-> TRUE, raw |-> tok.raw]
RawNames == {"t1", "t2"}
ResetMs == 10 * 60 * 1000

\* new User(userData) with the constructor's defaults
NewUser(id, email, password, role) ==
  [id |-> id, email |-> email, password |-> password, role |-> role,
   isActive |-> TRUE, isEmailVerified |-> FALSE,
   emailVerificationToken |-> NoSecret,
   passwordResetToken |-> NoSecret, passwordResetExpires |-> NoTime,
   passwordChangedAt |-> NoTime, loginAttempts |-> 0, lockUntil |-> NoTime]

\* userData of register: emailVerificationToken is the hex string itself, the
\* one the verification link carries (named after the id drawn with it)
RegisterData(id, email, password, role) ==
  [NewUser(id, email, password, role) EXCEPT !.emailVerificationToken = randomBytes(id)]

\* createPasswordResetToken() / createEmailVerificationToken(): the hash is
\* stored, the hex string is returned
createPasswordResetToken(u, name, t) ==
  [u EXCEPT !.passwordResetToken = sha256(randomBytes(name)), !.passwordResetExpires = t + ResetMs]

createEmailVerificationToken(u, name) ==
  [u EXCEPT !.emailVerificationToken = sha256(randomBytes(name))]

\* values as === sees them: findOne compares u[key] === query[key]
JsNull == [type |-> "null"]
JsString(tok) == [type |-> "string", tok |-> tok]
JsNumber(n) == [type |-> "number", n |-> n]
JsObject == [type |-> "object"]              \* an object literal built for the query

FieldValue(u, key) ==
  IF key = "passwordResetExpires"
  THEN (IF u[key] = NoTime THEN JsNull ELSE JsNumber(u[key]))
  ELSE (IF u[key] = NoSecret THEN JsNull ELSE JsString(u[key]))

StrictEquals(a, b) ==
  /\ a.type = b.type
  /\ CASE a.type = "string" -> a.tok = b.tok
       [] a.type = "number" -> a.n = b.n
       [] a.type = "object" -> FALSE
       [] OTHER -> TRUE

\* User.findOne(query): the first user every key of the query is === on
findOne(us, query) ==
  LET hit(i) == \A key \in DOMAIN query : StrictEquals(FieldValue(us[i], key), query[key])
  IN IF \E i \in 1..Len(us) : hit(i)
     THEN CHOOSE i \in 1..Len(us) : hit(i) /\ \A j \in 1..(i-1) : ~hit(j)
     ELSE NoUser

hashPassword(u, t) ==
  IF u.password # "" THEN [u EXCEPT !.password = Hash(u.password), !.passwordChangedAt = t] ELSE u

isLocked(u, t) == u.lockUntil # NoTime /\ u.lockUntil > t

save(us, u) ==
  LET i == IndexById(us, u.id) IN
  IF i # NoUser THEN [us EXCEPT ![i] = u] ELSE Append(us, u)

\* incLoginAttempts that counts and never locks
incLoginAttemptsCountOnly(u, t) ==
  IF u.lockUntil # NoTime /\ u.lockUntil < t
  THEN [u EXCEPT !.loginAttempts = 1, !.lockUntil = NoTime]
  ELSE [u EXCEPT !.loginAttempts = u.loginAttempts + 1]

\* incLoginAttempts locking one attempt late (> for >=)
incLoginAttemptsLate(u, t) ==
  IF u.lockUntil # NoTime /\ u.lockUntil < t
  THEN [u EXCEPT !.loginAttempts = 1, !.lockUntil = NoTime]
  ELSE IF u.loginAttempts + 1 > MaxAttempts /\ ~isLocked(u, t)
       THEN [u EXCEPT !.loginAttempts = u.loginAttempts + 1, !.lockUntil = t + LockMs]
       ELSE [u EXCEPT !.loginAttempts = u.loginAttempts + 1]

incLoginAttempts(u, t) ==
  IF u.lockUntil # NoTime /\ u.lockUntil < t
  THEN [u EXCEPT !.loginAttempts = 1, !.lockUntil = NoTime]
  ELSE IF u.loginAttempts + 1 >= MaxAttempts /\ ~isLocked(u, t)
       THEN [u EXCEPT !.loginAttempts = u.loginAttempts + 1, !.lockUntil = t + LockMs]
       ELSE [u EXCEPT !.loginAttempts = u.loginAttempts + 1]

\* toJSON that deletes the counters and leaves the password
toJSONKeepsPassword(u) ==
  [f \in DOMAIN u \ {"loginAttempts", "lockUntil"} |-> u[f]]

\* { ...this } with password, the reset and verification tokens, loginAttempts
\* and lockUntil deleted
toJSON(u) ==
  [f \in DOMAIN u \ {"password", "passwordResetToken", "passwordResetExpires",
                     "emailVerificationToken", "loginAttempts", "lockUntil"} |-> u[f]]

\* resetLoginAttempts that clears the lock and forgets the counter
resetLoginAttemptsLockOnly(u) == [u EXCEPT !.lockUntil = NoTime]

resetLoginAttempts(u) == [u EXCEPT !.loginAttempts = 0, !.lockUntil = NoTime]

\* generateId(): a random string; the model takes the next unused name
IdNames == <<"u1", "u2", "u3", "u4", "u5">>
generateId(us) == IdNames[Len(us) + 1]

----------------------------------------------------------------------------
(* middleware/auth (JWT variant) *)

\* An Authorization header is the scheme word and the words after it:
\* header.split(' ') = <<scheme>> \o rest.  scheme = "" is a missing header.
NoToken == [kind |-> "undefined"]                 \* split(' ')[1] of a one-word header
EmptyToken == [kind |-> "empty"]                  \* the empty string
GarbageToken == [kind |-> "garbage"]              \* a string that is no token of either variant
NoHeader == [scheme |-> "", rest |-> <<>>]
Schemes == {"Bearer", "Bearerx", "Basic"}

Headers(toks) ==
  {NoHeader} \cup
  {[scheme |-> s, rest |-> r] : s \in Schemes,
     r \in {<<>>} \cup {<<tok>> : tok \in toks \cup {EmptyToken, GarbageToken}}}

Falsy(tok) == tok.kind \in {"undefined", "empty"}

\* jwt.verify(token, JWT_SECRET): a token this server signed, not yet expired
jwtVerify(tok, t) ==
  IF tok.kind # "jwt" THEN "JsonWebTokenError"
  ELSE IF t \div 1000 >= tok.exp THEN "TokenExpiredError"
  ELSE "ok"

\* res.status(code).json({error, message}) written by the middleware itself
Reject(code, message) ==
  [status |-> code, next |-> FALSE, user |-> "", message |-> message,
   by |-> "authenticate", body |-> [error |-> "Access denied", message |-> message]]
Grant(u) == [status |-> 200, next |-> TRUE, user |-> u.id, message |-> ""]

\* authenticate as optionalAuth behaves: a request without a token is let through
authenticateLenient(h, us, t) ==
  LET token == IF h.scheme = "Bearer" /\ Len(h.rest) >= 1 THEN h.rest[1] ELSE NoToken IN
  IF Falsy(token) THEN [status |-> 200, next |-> TRUE, user |-> "", message |-> ""]
  ELSE IF jwtVerify(token, t) # "ok" THEN Reject(401, "Invalid token")
  ELSE IF IndexById(us, token.id) = NoUser THEN Reject(401, "User no longer exists")
  ELSE IF ~us[IndexById(us, token.id)].isActive THEN Reject(401, "Account is deactivated")
  ELSE Grant(us[IndexById(us, token.id)])

authenticate(h, us, t) ==
  LET token == IF h.scheme = "Bearer" /\ Len(h.rest) >= 1 THEN h.rest[1] ELSE NoToken IN
  IF Falsy(token) THEN Reject(401, "No token provided")
  ELSE IF jwtVerify(token, t) = "JsonWebTokenError" THEN Reject(401, "Invalid token")
  ELSE IF jwtVerify(token, t) = "TokenExpiredError" THEN Reject(401, "Token expired")
  ELSE LET i == IndexById(us, token.id) IN
       IF i = NoUser THEN Reject(401, "User no longer exists")
       ELSE IF ~us[i].isActive THEN Reject(401, "Account is deactivated")
       ELSE IF us[i].passwordChangedAt # NoTime
               /\ token.iat < us[i].passwordChangedAt \div 1000
            THEN Reject(401, "Password recently changed. Please login again.")
            ELSE Grant(us[i])

\* a token dated one second before it is signed
generateTokenBackdated(id, t) ==
  [kind |-> "jwt", id |-> id, iat |-> (t \div 1000) - 1, exp |-> (t \div 1000) + ExpireSec, at |-> t]

\* jwt.sign(payload, JWT_SECRET, {expiresIn}).  "at" is history, not part of the
\* string: the instant of issue, which the token itself only keeps in whole seconds.
generateToken(id, t) ==
  [kind |-> "jwt", id |-> id, iat |-> t \div 1000, exp |-> (t \div 1000) + ExpireSec, at |-> t]

\* the client of an account keeps the token it holds or takes the one it is sent
Keep(email, tok) == {tokens, [tokens EXCEPT ![email] = tok]}

Held == {tokens[e] : e \in Emails} \ {NoToken}

\* next() with req.user left as it was
PassThrough == [status |-> 200, next |-> TRUE, user |-> "", message |-> ""]

\* optionalAuth: the header must start with 'Bearer ' (the scheme and a space);
\* whatever jwt.verify or the lookup throws is caught and answered with next()
optionalAuth(h, us, t) ==
  IF h.scheme # "Bearer" \/ Len(h.rest) = 0 THEN PassThrough
  ELSE IF jwtVerify(h.rest[1], t) # "ok" THEN PassThrough
  ELSE LET i == IndexById(us, h.rest[1].id) IN
       IF i # NoUser /\ us[i].isActive THEN Grant(us[i]) ELSE PassThrough

----------------------------------------------------------------------------
(* middleware/auth (mock variant): its own users array, never written *)

MockUsers == <<[id |-> 1, email |-> "demo@example.com", role |-> "student", isVerified |-> TRUE]>>

NaN == -1

\* parseInt on the strings the model uses
parseInt(str) ==
  CASE str = "0" -> 0 [] str = "1" -> 1 [] str = "2" -> 2 [] str = "3" -> 3 [] str = "4" -> 4
    [] str = "5" -> 5 [] str = "1x" -> 1 [] OTHER -> NaN

MockToken(parts) == [kind |-> "mock", parts |-> parts]

\* token.split('-') of the strings presented to the mock middleware
MockTokens ==
  {MockToken(<<"mock", "jwt", "token", id, "1000">>) : id \in {"0", "1", "2", "x"}}
  \cup {MockToken(<<"mock", "jwt", "token">>), MockToken(<<"mock", "jwt", "tokex", "1", "1000">>)}

extractUserIdFromToken(tok) ==
  IF tok.kind = "mock" /\ Len(tok.parts) >= 4
     /\ tok.parts[1] = "mock" /\ tok.parts[2] = "jwt" /\ tok.parts[3] = "token"
  THEN parseInt(tok.parts[4])
  ELSE NaN            \* null: as falsy as NaN in the caller's (!userId)

findUserById(id) ==
  IF \E i \in 1..Len(MockUsers) : MockUsers[i].id = id
  THEN CHOOSE i \in 1..Len(MockUsers) : MockUsers[i].id = id
  ELSE NoUser

\* the mock middleware reports through next(err): the status is globalErrorHandler's
MockReject(code, message, env) ==
  LET res == globalErrorHandler(AppError(message, code), ApiUrl, env) IN
  [status |-> res.statusCode, next |-> FALSE, user |-> "", message |-> message,
   by |-> "globalErrorHandler", body |-> res.body]

mockAuthenticate(h, cookie, env) ==
  LET token == IF h.scheme \in {"Bearer", "Bearerx"}
               THEN (IF Len(h.rest) >= 1 THEN h.rest[1] ELSE NoToken)
               ELSE cookie
  IN
  IF Falsy(token) THEN MockReject(401, "You are not logged in! Please log in to get access.", env)
  ELSE LET userId == extractUserIdFromToken(token) IN
    IF userId = NaN \/ userId = 0 THEN MockReject(401, "Invalid token. Please log in again!", env)
    ELSE IF findUserById(userId) = NoUser
         THEN MockReject(401, "The user belonging to this token no longer exists.", env)
    ELSE IF ~MockUsers[findUserById(userId)].isVerified
         THEN MockReject(401, "Please verify your email before accessing this resource.", env)
    ELSE [status |-> 200, next |-> TRUE, user |-> MockUsers[findUserById(userId)].email, message |-> ""]

mockOptionalAuth(h, cookie) ==
  LET token == IF h.scheme \in {"Bearer", "Bearerx"}
               THEN (IF Len(h.rest) >= 1 THEN h.rest[1] ELSE NoToken)
               ELSE cookie
      userId == extractUserIdFromToken(token)
  IN
  IF Falsy(token) \/ userId = NaN \/ userId = 0 THEN PassThrough
  ELSE IF findUserById(userId) # NoUser /\ MockUsers[findUserById(userId)].isVerified
       THEN [PassThrough EXCEPT !.user = MockUsers[findUserById(userId)].email]
       ELSE PassThrough

----------------------------------------------------------------------------
(* controllers/authController (JWT variant); every handler runs to its end *)

\* what the request carried, kept with the outcome
Sent(h, cookie) ==
  [scheme |-> h.scheme,
   word |-> IF Len(h.rest) >= 1 THEN h.rest[1].kind ELSE "undefined",
   cookie |-> cookie.kind]

\* the identity a JWT names, as the store has it at time t
TokenState(h, us, t) ==
  LET tok == IF Len(h.rest) >= 1 THEN h.rest[1] ELSE NoToken
      i == IF tok.kind = "jwt" THEN IndexById(us, tok.id) ELSE NoUser
  IN [known |-> i # NoUser,
      locked |-> i # NoUser /\ isLocked(us[i], t),
      active |-> i # NoUser /\ us[i].isActive,
      issuedBefore |-> i # NoUser /\ tok.at < us[i].passwordChangedAt]

\* res.json({status: 'success', message, token, data: {user: user.toJSON()}})
Success(user, token) == [status |-> "success", token |-> token, user |-> toJSON(user)]

\* next(new AppError(...)) ends in globalErrorHandler
Fail(op, message, code) ==
  LET res == globalErrorHandler(AppError(message, code), ApiUrl, nodeEnv) IN
  [op |-> op, status |-> res.statusCode, next |-> FALSE, user |-> "", message |-> message,
   by |-> "globalErrorHandler", body |-> res.body]

Register(email, password, role) ==
  /\ UNCHANGED <<mockStore, pending, courses, enrollments, now, ticks, nodeEnv, streak>>
  /\ IF ~validatePassword(password)
     THEN /\ out' = Fail("register", "Password must be at least 8 characters long", 400)
          /\ UNCHANGED <<users, tokens>>
     ELSE IF ~validateRole(role)
     THEN /\ out' = Fail("register", "Invalid role specified", 400)
          /\ UNCHANGED <<users, tokens>>
     ELSE IF IndexByEmail(users, email) # NoUser
     THEN /\ out' = Fail("register", "User with this email already exists", 400)
          /\ UNCHANGED <<users, tokens>>
     ELSE /\ LET user == hashPassword(RegisterData(generateId(users), email, password, role), now) IN
             /\ users' = save(users, user)
             /\ tokens' \in Keep(email, generateToken(user.id, now))
             /\ out' = [op |-> "register", status |-> 201, next |-> FALSE, user |-> user.id,
                        message |-> "User registered successfully",
                        body |-> Success(user, generateToken(user.id, now))]

Login(email, password) ==
  /\ UNCHANGED <<mockStore, pending, courses, enrollments, now, ticks, nodeEnv>>
  /\ LET i == IndexByEmail(users, email)
         \* the request, kept with the outcome: when it was made and what the handler read
         req == [email |-> email, password |-> password, at |-> now,
                 before |-> IF i = NoUser THEN 0 ELSE users[i].loginAttempts]
     IN
     IF i = NoUser
     THEN /\ out' = Fail("login", "Invalid email or password", 401) @@ req @@ [reason |-> "unknown"]
          /\ UNCHANGED <<users, tokens, streak>>
     ELSE LET user == users[i] IN
       IF isLocked(user, now)
       THEN /\ out' = Fail("login", "Account is temporarily locked", 423) @@ req @@ [reason |-> "locked"]
            /\ UNCHANGED <<users, tokens, streak>>
       ELSE IF ~user.isActive
       THEN /\ out' = Fail("login", "Your account has been deactivated", 401) @@ req @@ [reason |-> "inactive"]
            /\ UNCHANGED <<users, tokens, streak>>
       ELSE IF ~comparePassword(password, user.password)
       THEN /\ users' = save(users, incLoginAttempts(user, now))
            /\ streak' = [streak EXCEPT ![email] = @ + 1]
            /\ out' = Fail("login", "Invalid email or password", 401) @@ req @@ [reason |-> "password"]
            /\ UNCHANGED tokens
       ELSE LET u1 == IF user.loginAttempts > 0 THEN resetLoginAttempts(user) ELSE user
            IN /\ users' = save(users, u1)            \* update({lastLogin}) saves the same copy
               /\ streak' = [streak EXCEPT ![email] = 0]
               /\ tokens' \in Keep(email, generateToken(user.id, now))
               /\ out' = [op |-> "login", status |-> 200, next |-> FALSE, user |-> user.id,
                          message |-> "Login successful", reason |-> "ok",
                          body |-> Success(u1, generateToken(user.id, now))] @@ req

\* a protected route whose handler does nothing but answer (getMe)
Authenticate(h) ==
  /\ out' = authenticate(h, users, now)
             @@ [op |-> "authenticate", sent |-> Sent(h, NoToken), id |-> TokenState(h, users, now)]
  /\ UNCHANGED <<mockStore, pending, courses, enrollments, now, ticks, nodeEnv, users, tokens, streak>>

MockAuthenticate(h, cookie) ==
  /\ out' = mockAuthenticate(h, cookie, nodeEnv)
             @@ [op |-> "mockAuthenticate", sent |-> Sent(h, cookie)]
  /\ UNCHANGED <<mockStore, pending, courses, enrollments, now, ticks, nodeEnv, users, tokens, streak>>

\* a public route behind optionalAuth; "passes" is what authenticate answers
\* to the same request at the same instant
OptionalAuth(h) ==
  /\ out' = optionalAuth(h, users, now)
             @@ [op |-> "optionalAuth", sent |-> Sent(h, NoToken), id |-> TokenState(h, users, now),
                 passes |-> authenticate(h, users, now).next]
  /\ UNCHANGED <<mockStore, pending, courses, enrollments, now, ticks, nodeEnv, users, tokens, streak>>

MockOptionalAuth(h, cookie) ==
  /\ out' = mockOptionalAuth(h, cookie)
             @@ [op |-> "mockOptionalAuth", sent |-> Sent(h, cookie),
                 passes |-> mockAuthenticate(h, cookie, nodeEnv).next]
  /\ UNCHANGED <<mockStore, pending, courses, enrollments, now, ticks, nodeEnv, users, tokens, streak>>

\* POST /api/auth/change-password: authenticate, then changePassword
ChangePassword(email, currentPassword, newPassword, newPasswordConfirm) ==
  LET h == [scheme |-> "Bearer", rest |-> <<tokens[email]>>]
      auth == authenticate(h, users, now)
  IN
  /\ tokens[email] # NoToken
  /\ UNCHANGED <<mockStore, pending, courses, enrollments, now, ticks, nodeEnv, streak>>
  /\ IF ~auth.next
     THEN /\ out' = auth @@ [op |-> "changePassword"]
          /\ UNCHANGED <<users, tokens>>
     ELSE IF newPassword # newPasswordConfirm
     THEN /\ out' = Fail("changePassword", "New passwords do not match", 400)
          /\ UNCHANGED <<users, tokens>>
     ELSE IF ~validatePassword(newPassword)
     THEN /\ out' = Fail("changePassword", "Password must be at least 8 characters long", 400)
          /\ UNCHANGED <<users, tokens>>
     ELSE LET user == users[IndexById(users, auth.user)] IN
       IF ~comparePassword(currentPassword, user.password)
       THEN /\ out' = Fail("changePassword", "Current password is incorrect", 401)
            /\ UNCHANGED <<users, tokens>>
       ELSE LET u1 == hashPassword([user EXCEPT !.password = newPassword, !.passwordChangedAt = now], now) IN
            /\ users' = save(users, u1)
            /\ tokens' \in Keep(email, generateToken(u1.id, now))
            /\ out' = [op |-> "changePassword", status |-> 200, next |-> FALSE, user |-> u1.id,
                       message |-> "Password changed successfully",
                       body |-> Success(u1, generateToken(u1.id, now))]

\* GET /api/auth/me: authenticate, then getMe answers req.user.toJSON()
GetMe(email) ==
  LET h == [scheme |-> "Bearer", rest |-> <<tokens[email]>>]
      auth == authenticate(h, users, now)
  IN
  /\ tokens[email] # NoToken
  /\ UNCHANGED <<mockStore, pending, courses, enrollments, now, ticks, nodeEnv, streak, tokens, users>>
  /\ IF ~auth.next
     THEN out' = auth @@ [op |-> "getMe"]
     ELSE out' = [op |-> "getMe", status |-> 200, next |-> FALSE, user |-> auth.user, message |-> "",
                  body |-> [status |-> "success", user |-> toJSON(users[IndexById(users, auth.user)])]]

\* deactivateAccount behind authenticate: req.user.update({ isActive: false })
DeactivateAccount(email) ==
  LET h == [scheme |-> "Bearer", rest |-> <<tokens[email]>>]
      auth == authenticate(h, users, now)
  IN
  /\ tokens[email] # NoToken
  /\ UNCHANGED <<mockStore, pending, courses, enrollments, now, ticks, nodeEnv, streak, tokens>>
  /\ IF ~auth.next
     THEN /\ out' = auth @@ [op |-> "deactivateAccount"]
          /\ UNCHANGED users
     ELSE /\ users' = save(users, [users[IndexById(users, auth.user)] EXCEPT !.isActive = FALSE])
          /\ out' = [op |-> "deactivateAccount", status |-> 200, next |-> FALSE, user |-> auth.user,
                     message |-> "Account deactivated successfully"]

Tick(d) ==
  /\ ticks < MaxTicks
  /\ now' = now + d
  /\ ticks' = ticks + 1
  /\ UNCHANGED <<mockStore, pending, courses, enrollments, nodeEnv, users, tokens, streak, out>>

----------------------------------------------------------------------------
(* controllers/authController (JWT variant), register and socialLogin with *)
(* the await on bcrypt.hash inside User.create as a point where other       *)
(* requests run: the handler up to it, and the handler after it             *)

\* an id no stored and no suspended user has: generateId() draws a random one
FreshId ==
  LET used == {users[i].id : i \in 1..Len(users)} \cup {r.user.id : r \in pending}
  IN IdNames[CHOOSE k \in 1..Len(IdNames) :
               IdNames[k] \notin used /\ \A j \in 1..(k-1) : IdNames[j] \in used]

Room == Cardinality(pending) < MaxPending /\ Len(users) + Cardinality(pending) < MaxUsers

\* register answering a stored email with the mock controller's 409
RegisterBeginAs409(email, password, role) ==
  /\ UNCHANGED <<mockStore, courses, enrollments, now, ticks, nodeEnv, streak, users, tokens>>
  /\ LET req == [email |-> email, taken |-> IndexByEmail(users, email) # NoUser,
                 valid |-> validatePassword(password) /\ validateRole(role)]
     IN
     IF ~validatePassword(password)
     THEN /\ out' = Fail("register", "Password must be at least 8 characters long", 400) @@ req
          /\ UNCHANGED pending
     ELSE IF ~validateRole(role)
     THEN /\ out' = Fail("register", "Invalid role specified", 400) @@ req
          /\ UNCHANGED pending
     ELSE IF IndexByEmail(users, email) # NoUser
     THEN /\ out' = Fail("register", "User with this email already exists", 409) @@ req
          /\ UNCHANGED pending
     ELSE /\ Room
          /\ pending' = pending \cup
               {[op |-> "register", user |-> RegisterData(FreshId, email, password, role)]}
          /\ out' = [op |-> "await", status |-> 0, next |-> FALSE, user |-> "", message |-> ""]

\* register up to `await user.hashPassword()` in User.create
RegisterBegin(email, password, role) ==
  /\ UNCHANGED <<mockStore, courses, enrollments, now, ticks, nodeEnv, streak, users, tokens>>
  /\ LET req == [email |-> email, taken |-> IndexByEmail(users, email) # NoUser,
                 valid |-> validatePassword(password) /\ validateRole(role)]
     IN
     IF ~validatePassword(password)
     THEN /\ out' = Fail("register", "Password must be at least 8 characters long", 400) @@ req
          /\ UNCHANGED pending
     ELSE IF ~validateRole(role)
     THEN /\ out' = Fail("register", "Invalid role specified", 400) @@ req
          /\ UNCHANGED pending
     ELSE IF IndexByEmail(users, email) # NoUser
     THEN /\ out' = Fail("register", "User with this email already exists", 400) @@ req
          /\ UNCHANGED pending
     ELSE /\ Room
          /\ pending' = pending \cup
               {[op |-> "register", user |-> RegisterData(FreshId, email, password, role)]}
          /\ out' = [op |-> "await", status |-> 0, next |-> FALSE, user |-> "", message |-> ""]

\* socialLogin up to the same await; an email that is found is answered at once
SocialLoginBegin(email) ==
  /\ UNCHANGED <<mockStore, courses, enrollments, now, ticks, nodeEnv, streak, users>>
  /\ LET i == IndexByEmail(users, email) IN
     IF i # NoUser
     THEN /\ tokens' = [tokens EXCEPT ![email] = generateToken(users[i].id, now)]
          /\ out' = [op |-> "socialLogin", status |-> 200, next |-> FALSE, user |-> users[i].id,
                     message |-> "Social login successful", email |-> email,
                     body |-> Success(users[i], generateToken(users[i].id, now))]
          /\ UNCHANGED pending
     ELSE /\ Room
          /\ pending' = pending \cup
               {[op |-> "socialLogin",
                 user |-> [NewUser(FreshId, email, "random", "student") EXCEPT !.isEmailVerified = TRUE]]}
          /\ out' = [op |-> "await", status |-> 0, next |-> FALSE, user |-> "", message |-> ""]
          /\ UNCHANGED tokens

\* the rest of User.create (hashPassword resolves, save) and of the handler
Finish(r) ==
  /\ r \in pending
  /\ UNCHANGED <<mockStore, courses, enrollments, now, ticks, nodeEnv, streak>>
  /\ LET user == hashPassword(r.user, now) IN
     /\ users' = save(users, user)
     /\ pending' = pending \ {r}
     /\ tokens' = [tokens EXCEPT ![user.email] = generateToken(user.id, now)]
     /\ out' = [op |-> r.op, status |-> IF r.op = "register" THEN 201 ELSE 200, next |-> FALSE,
                user |-> user.id, message |-> "", email |-> user.email, taken |-> FALSE,
                valid |-> TRUE, body |-> Success(user, generateToken(user.id, now))]

\* login up to `await user.comparePassword(password)`: findByEmail hands out a
\* copy of the stored record (new User(userData)), which the request keeps
LoginBegin(email, password) ==
  /\ UNCHANGED <<mockStore, courses, enrollments, now, ticks, nodeEnv, streak, users, tokens>>
  /\ LET i == IndexByEmail(users, email)
         req == [email |-> email, password |-> password, at |-> now,
                 before |-> IF i = NoUser THEN 0 ELSE users[i].loginAttempts]
     IN
     IF i = NoUser
     THEN /\ out' = Fail("login", "Invalid email or password", 401) @@ req @@ [reason |-> "unknown"]
          /\ UNCHANGED pending
     ELSE IF isLocked(users[i], now)
     THEN /\ out' = Fail("login", "Account is temporarily locked", 423) @@ req @@ [reason |-> "locked"]
          /\ UNCHANGED pending
     ELSE IF ~users[i].isActive
     THEN /\ out' = Fail("login", "Your account has been deactivated", 401) @@ req @@ [reason |-> "inactive"]
          /\ UNCHANGED pending
     ELSE /\ Cardinality(pending) < MaxPending
          /\ streak[email] < MaxStreak
          /\ pending' = pending \cup
               {[op |-> "login", user |-> users[i], password |-> password,
                 slot |-> CHOOSE k \in 1..MaxPending : \A r \in pending : r.slot # k]}
          /\ out' = [op |-> "await", status |-> 0, next |-> FALSE, user |-> "", message |-> ""]

\* the rest of login: bcrypt.compare resolves, then incLoginAttempts, or
\* resetLoginAttempts and update({lastLogin}); each saves the request's copy.
\* "stored" is the counter and "flags" the record the store held just before.
LoginFinish(r) ==
  /\ r \in pending
  /\ r.op = "login"
  /\ pending' = pending \ {r}
  /\ UNCHANGED <<mockStore, courses, enrollments, now, ticks, nodeEnv>>
  /\ LET user == r.user
         i == IndexById(users, user.id)
         req == [email |-> user.email, password |-> r.password, at |-> now,
                 before |-> user.loginAttempts, stored |-> users[i].loginAttempts,
                 flags |-> [isActive |-> users[i].isActive, password |-> users[i].password]]
     IN
     IF ~comparePassword(r.password, user.password)
     THEN /\ users' = save(users, incLoginAttempts(user, now))
          /\ streak' = [streak EXCEPT ![user.email] = @ + 1]
          /\ out' = Fail("login", "Invalid email or password", 401) @@ req @@ [reason |-> "password"]
          /\ UNCHANGED tokens
     ELSE LET u1 == IF user.loginAttempts > 0 THEN resetLoginAttempts(user) ELSE user
          IN /\ users' = save(users, u1)
             /\ streak' = [streak EXCEPT ![user.email] = 0]
             /\ tokens' \in Keep(user.email, generateToken(user.id, now))
             /\ out' = [op |-> "login", status |-> 200, next |-> FALSE, user |-> user.id,
                        message |-> "Login successful", reason |-> "ok",
                        body |-> Success(u1, generateToken(user.id, now))] @@ req

\* PATCH /api/auth/me: only firstName, lastName, bio, phone and profileImage
\* are copied from the body, so an email in it changes nothing
UpdateMe(holder, email) ==
  LET h == [scheme |-> "Bearer", rest |-> <<tokens[holder]>>]
      auth == authenticate(h, users, now)
  IN
  /\ tokens[holder] # NoToken
  /\ UNCHANGED <<mockStore, pending, courses, enrollments, now, ticks, nodeEnv, streak, tokens, users>>
  /\ IF ~auth.next
     THEN out' = auth @@ [op |-> "updateMe"]
     ELSE out' = [op |-> "updateMe", status |-> 200, next |-> FALSE, user |-> auth.user,
                  message |-> "Profile updated successfully", email |-> email,
                  body |-> [status |-> "success", user |-> toJSON(users[IndexById(users, auth.user)])]]

----------------------------------------------------------------------------
(* controllers/authController (JWT variant): reset and verification tokens. *)
(* sendEmail delivers or throws; "delivered" is which.                      *)

\* POST /api/auth/forgot-password
ForgotPassword(email, name, delivered) ==
  /\ UNCHANGED <<mockStore, pending, courses, enrollments, now, ticks, nodeEnv, streak, tokens>>
  /\ LET i == IndexByEmail(users, email) IN
     IF i = NoUser
     THEN /\ out' = Fail("forgotPassword", "No user found with that email address", 404)
          /\ UNCHANGED users
     ELSE LET user == createPasswordResetToken(users[i], name, now) IN
       IF delivered
       THEN /\ users' = save(users, user)
            /\ out' = [op |-> "forgotPassword", status |-> 200, next |-> FALSE, user |-> user.id,
                       message |-> "Password reset link sent to your email",
                       link |-> randomBytes(name)]
       ELSE /\ users' = save(users, [user EXCEPT !.passwordResetToken = NoSecret,
                                                 !.passwordResetExpires = NoTime])
            /\ out' = Fail("forgotPassword", "Error sending email. Please try again later.", 500)

\* POST /api/auth/reset-password/:token
ResetPassword(token, password, passwordConfirm) ==
  /\ UNCHANGED <<mockStore, pending, courses, enrollments, now, ticks, nodeEnv, streak>>
  /\ LET \* the request, kept with the outcome: was the token the one an identity
         \* has stored, and was it unexpired
         req == [token |-> token, valid |-> validatePassword(password) /\ password = passwordConfirm,
                 issued |-> \E k \in 1..Len(users) : users[k].passwordResetToken = sha256(token),
                 fresh |-> \E k \in 1..Len(users) :
                             /\ users[k].passwordResetToken = sha256(token)
                             /\ users[k].passwordResetExpires > now]
         i == findOne(users, [passwordResetToken |-> JsString(sha256(token)),
                              passwordResetExpires |-> JsObject])
     IN
     IF password # passwordConfirm
     THEN /\ out' = Fail("resetPassword", "Passwords do not match", 400) @@ req
          /\ UNCHANGED <<users, tokens>>
     ELSE IF ~validatePassword(password)
     THEN /\ out' = Fail("resetPassword", "Password must be at least 8 characters long", 400) @@ req
          /\ UNCHANGED <<users, tokens>>
     ELSE IF i = NoUser
     THEN /\ out' = Fail("resetPassword", "Invalid or expired password reset token", 400) @@ req
          /\ UNCHANGED <<users, tokens>>
     ELSE LET user == hashPassword([users[i] EXCEPT !.password = password,
                                                    !.passwordResetToken = NoSecret,
                                                    !.passwordResetExpires = NoTime,
                                                    !.passwordChangedAt = now], now)
          IN /\ users' = save(users, user)
             /\ tokens' = [tokens EXCEPT ![user.email] = generateToken(user.id, now)]
             /\ out' = [op |-> "resetPassword", status |-> 200, next |-> FALSE, user |-> user.id,
                        message |-> "Password reset successful",
                        body |-> Success(user, generateToken(user.id, now))] @@ req

\* GET /api/auth/verify-email/:token
VerifyEmail(token) ==
  /\ UNCHANGED <<mockStore, pending, courses, enrollments, now, ticks, nodeEnv, streak, tokens>>
  /\ LET \* the request, kept with the outcome: is the token the string register
         \* stored, or the string whose hash resendEmailVerification stored
         req == [token |-> token,
                 registered |-> \E k \in 1..Len(users) : users[k].emailVerificationToken = token,
                 resent |-> \E k \in 1..Len(users) : users[k].emailVerificationToken = sha256(token)]
         i == findOne(users, [emailVerificationToken |-> JsString(sha256(token))])
     IN
     IF i = NoUser
     THEN /\ out' = Fail("verifyEmail", "Invalid or expired verification token", 400) @@ req
          /\ UNCHANGED users
     ELSE LET user == [users[i] EXCEPT !.isEmailVerified = TRUE, !.emailVerificationToken = NoSecret]
          IN /\ users' = save(users, user)
             /\ out' = [op |-> "verifyEmail", status |-> 200, next |-> FALSE, user |-> user.id,
                        message |-> "Email verified successfully",
                        body |-> [status |-> "success", user |-> toJSON(user)]] @@ req

\* POST /api/auth/resend-verification: authenticate, then resendEmailVerification
ResendEmailVerification(email, name, delivered) ==
  LET h == [scheme |-> "Bearer", rest |-> <<tokens[email]>>]
      auth == authenticate(h, users, now)
  IN
  /\ tokens[email] # NoToken
  /\ UNCHANGED <<mockStore, pending, courses, enrollments, now, ticks, nodeEnv, streak, tokens>>
  /\ IF ~auth.next
     THEN /\ out' = auth @@ [op |-> "resendEmailVerification"]
          /\ UNCHANGED users
     ELSE LET user == users[IndexById(users, auth.user)] IN
       IF user.isEmailVerified
       THEN /\ out' = Fail("resendEmailVerification", "Email is already verified", 400)
            /\ UNCHANGED users
       ELSE IF delivered
       THEN /\ users' = save(users, createEmailVerificationToken(user, name))
            /\ out' = [op |-> "resendEmailVerification", status |-> 200, next |-> FALSE,
                       user |-> user.id, message |-> "Verification email sent successfully",
                       link |-> randomBytes(name)]
       ELSE /\ users' = save(users, [user EXCEPT !.emailVerificationToken = NoSecret])
            /\ out' = Fail("resendEmailVerification",
                           "Error sending verification email. Please try again later.", 500)

----------------------------------------------------------------------------
(* controllers/authController (mock variant): a users array of its own *)

MockControllerUsers ==
  <<[id |-> 1, name |-> "Demo User", email |-> "demo@example.com",
     password |-> <<"mock", "hashed_password_here">>, role |-> "student", isVerified |-> TRUE]>>

findUserByEmail(us, email) ==
  IF \E i \in 1..Len(us) : us[i].email = email
  THEN CHOOSE i \in 1..Len(us) : us[i].email = email /\ \A j \in 1..(i-1) : us[j].email # email
  ELSE NoUser

\* users.find(user => user.id === parseInt(id)) of the controller
mockFindUserById(us, id) ==
  IF \E i \in 1..Len(us) : us[i].id = id
  THEN CHOOSE i \in 1..Len(us) : us[i].id = id /\ \A j \in 1..(i-1) : us[j].id # id
  ELSE NoUser

\* the five fields the mock handlers copy into data.user
MockPublic(u) ==
  [id |-> u.id, name |-> u.name, email |-> u.email, role |-> u.role, isVerified |-> u.isVerified]

\* `mock-jwt-token-${userId}-${Date.now()}`, split at '-'
mockGenerateToken(userId) ==
  MockToken(<<"mock", "jwt", "token", <<"1", "2", "3", "4", "5">>[userId], "1000">>)

MockFail(op, message, code) ==
  LET res == globalErrorHandler(AppError(message, code), ApiUrl, nodeEnv) IN
  [op |-> op, status |-> res.statusCode, next |-> FALSE, user |-> "", message |-> message,
   by |-> "globalErrorHandler", body |-> res.body]

\* name, email or password "" is a missing field; role is stored as it was sent
MockRegister(name, email, password, role) ==
  /\ UNCHANGED <<pending, courses, enrollments, now, ticks, nodeEnv, streak, users, tokens>>
  /\ LET req == [email |-> email, taken |-> findUserByEmail(mockStore, email) # NoUser,
                 valid |-> name # "" /\ email # "" /\ password # ""]
     IN
     IF name = "" \/ email = "" \/ password = ""
     THEN /\ out' = MockFail("mockRegister", "Name, email and password are required", 400) @@ req
          /\ UNCHANGED mockStore
     ELSE IF findUserByEmail(mockStore, email) # NoUser
     THEN /\ out' = MockFail("mockRegister", "User with this email already exists", 409) @@ req
          /\ UNCHANGED mockStore
     ELSE /\ Len(mockStore) < MaxUsers
          /\ LET newUser == [id |-> Len(mockStore) + 1, name |-> name, email |-> email,
                             password |-> <<"mock", password>>, role |-> role,
                             isVerified |-> FALSE]
             IN /\ mockStore' = Append(mockStore, newUser)
                /\ out' = [op |-> "mockRegister", status |-> 201, next |-> FALSE, user |-> "",
                           message |-> "Registration successful",
                           body |-> [status |-> "success", user |-> MockPublic(newUser),
                                     token |-> mockGenerateToken(newUser.id)]] @@ req

\* login of the mock controller: any password is taken as valid
MockLogin(email, password) ==
  /\ UNCHANGED <<mockStore, pending, courses, enrollments, now, ticks, nodeEnv, streak, users, tokens>>
  /\ IF email = "" \/ password = ""
     THEN out' = MockFail("mockLogin", "Email and password are required", 400)
     ELSE IF findUserByEmail(mockStore, email) = NoUser
     THEN out' = MockFail("mockLogin", "Invalid email or password", 401)
     ELSE LET user == mockStore[findUserByEmail(mockStore, email)] IN
          out' = [op |-> "mockLogin", status |-> 200, next |-> FALSE, user |-> "",
                  message |-> "Login successful",
                  body |-> [status |-> "success", user |-> MockPublic(user),
                            token |-> mockGenerateToken(user.id)]]

\* POST /login of routes/auth: the same answer for every email and password
RouteLogin(email, password) ==
  /\ UNCHANGED <<mockStore, pending, courses, enrollments, now, ticks, nodeEnv, streak, users, tokens>>
  /\ IF email = "" \/ password = ""
     THEN out' = [op |-> "routeLogin", status |-> 400, next |-> FALSE, user |-> "",
                  message |-> "Email and password are required", by |-> "route",
                  body |-> [error |-> "Validation Error",
                            message |-> "Email and password are required"]]
     ELSE out' = [op |-> "routeLogin", status |-> 200, next |-> FALSE, user |-> "",
                  message |-> "Login successful",
                  body |-> [status |-> "success",
                            user |-> [id |-> 1, email |-> email, name |-> "Demo User",
                                      role |-> "student"],
                            token |-> MockToken(<<"mock", "jwt", "token", "here">>)]]

\* the client sends the token of the answer it has just received to a route
\* behind the mock authenticate
MockPresent ==
  /\ out.op \in {"mockRegister", "mockLogin", "routeLogin"}
  /\ out.status \in {200, 201}
  /\ LET h == [scheme |-> "Bearer", rest |-> <<out.body.token>>] IN
     out' = mockAuthenticate(h, NoToken, nodeEnv)
              @@ [op |-> "mockAuthenticate", sent |-> Sent(h, NoToken),
                  issuedBy |-> out.op, issuedFor |-> out.body.user.id]
  /\ UNCHANGED <<mockStore, pending, courses, enrollments, now, ticks, nodeEnv, streak, users, tokens>>

\* updateMe behind the mock authenticate, whose only identity has id 1
MockUpdateMe(email) ==
  /\ UNCHANGED <<pending, courses, enrollments, now, ticks, nodeEnv, streak, users, tokens>>
  /\ LET i == mockFindUserById(mockStore, MockUsers[1].id) IN
     IF i = NoUser
     THEN /\ out' = MockFail("mockUpdateMe", "User not found", 404)
          /\ UNCHANGED mockStore
     ELSE /\ mockStore' = IF email # "" THEN [mockStore EXCEPT ![i].email = email] ELSE mockStore
          /\ out' = [op |-> "mockUpdateMe", status |-> 200, next |-> FALSE, user |-> "",
                     message |-> "Profile updated successfully", email |-> email,
                     body |-> [status |-> "success", user |-> MockPublic(mockStore'[i])]]

----------------------------------------------------------------------------
(* middleware/authorize (JWT variant) and authorize / isOwnerOrAdmin (mock)  *)
(* req.user is what an authenticate middleware attached: NoIdentity if none. *)

NoIdentity == [id |-> "", role |-> ""]
Identities ==
  {[id |-> "u1", role |-> "student"], [id |-> "u2", role |-> "instructor"],
   [id |-> "u3", role |-> "admin"], [id |-> "u4", role |-> "student"]}
IdStrings == {"u1", "u2", "u3"}          \* values of a route parameter or body field
Absent == ""                             \* a parameter or field the request does not have

NoMockIdentity == [id |-> 0, role |-> ""]
MockIdentities ==
  {[id |-> 1, role |-> "student"], [id |-> 2, role |-> "instructor"], [id |-> 3, role |-> "admin"]}
NumStrings == {"1", "2", "1x", "x"}

\* res.status(code).json({error, message}) written by the middleware itself
ErrorLabel(code) ==
  CASE code = 401 -> "Access denied" [] code = 403 -> "Forbidden"
    [] code = 404 -> "Not found" [] OTHER -> "Server error"
Direct(code, message) ==
  [status |-> code, next |-> FALSE, message |-> message,
   by |-> "authorize", body |-> [error |-> ErrorLabel(code), message |-> message]]
Pass == [status |-> 200, next |-> TRUE, message |-> ""]

\* authorize answering a missing role as a missing identity
authorizeAs401(roles, user) ==
  IF user = NoIdentity \/ user.role \notin roles THEN Direct(401, "Authentication required")
  ELSE Pass

authorize(roles, user) ==
  IF user = NoIdentity THEN Direct(401, "Authentication required")
  ELSE IF user.role \notin roles THEN Direct(403, "Insufficient permissions")
  ELSE Pass

mockAuthorize(roles, user, env) ==
  IF user = NoMockIdentity THEN MockReject(401, "Authentication required", env)
  ELSE IF user.role \notin roles
       THEN MockReject(403, "You do not have permission to perform this action", env)
  ELSE Pass

\* a || b on strings: the first one that is not empty / undefined
Or(a, b) == IF a # Absent THEN a ELSE b

\* authorizeOwnerOrAdmin reading the body before the route parameter
authorizeOwnerBodyFirst(user, param, field) ==
  IF user = NoIdentity THEN Direct(401, "Authentication required")
  ELSE IF user.role = "admin" THEN Pass
  ELSE IF user.id # Or(field, param) THEN Direct(403, "You can only access your own resources")
  ELSE Pass

authorizeOwnerOrAdmin(user, param, field) ==
  IF user = NoIdentity THEN Direct(401, "Authentication required")
  ELSE IF user.role = "admin" THEN Pass
  ELSE IF user.id # Or(param, field) THEN Direct(403, "You can only access your own resources")
  ELSE Pass

isOwnerOrAdmin(user, paramUserId, paramId, bodyUserId, env) ==
  IF user = NoMockIdentity THEN MockReject(401, "Authentication required", env)
  ELSE IF user.role = "admin" \/ user.id = parseInt(Or(Or(paramUserId, paramId), bodyUserId))
       THEN Pass
  ELSE MockReject(403, "You can only access your own resources", env)

\* Course.findById(id): the first course with that id, 0 if none
CourseFindById(cs, id) ==
  IF \E i \in 1..Len(cs) : cs[i].id = id
  THEN CHOOSE i \in 1..Len(cs) : cs[i].id = id /\ \A j \in 1..(i-1) : cs[j].id # id
  ELSE 0

\* Enrollment.findOne({courseId, userId, status: 'active'})
EnrollmentFindOne(es, courseId, userId) ==
  IF \E i \in 1..Len(es) : es[i].courseId = courseId /\ es[i].userId = userId /\ es[i].status = "active"
  THEN CHOOSE i \in 1..Len(es) :
         /\ es[i].courseId = courseId /\ es[i].userId = userId /\ es[i].status = "active"
         /\ \A j \in 1..(i-1) : ~(es[j].courseId = courseId /\ es[j].userId = userId /\ es[j].status = "active")
  ELSE 0

\* authorizeCourseInstructorOrAdmin without the existence check
authorizeCourseNo404(user, param, field, cs) ==
  IF user = NoIdentity THEN Direct(401, "Authentication required") @@ [course |-> Absent]
  ELSE IF user.role = "admin" THEN Pass @@ [course |-> Absent]
  ELSE LET i == CourseFindById(cs, Or(param, field)) IN
    IF i = 0 \/ cs[i].instructorId # user.id
    THEN Direct(403, "Only course instructor or admin can perform this action") @@ [course |-> Absent]
    ELSE Pass @@ [course |-> cs[i].id]

\* the outcome and what the middleware left in req.course
authorizeCourseInstructorOrAdmin(user, param, field, cs) ==
  IF user = NoIdentity THEN Direct(401, "Authentication required") @@ [course |-> Absent]
  ELSE IF user.role = "admin" THEN Pass @@ [course |-> Absent]
  ELSE LET i == CourseFindById(cs, Or(param, field)) IN
    IF i = 0 THEN Direct(404, "Course not found") @@ [course |-> Absent]
    ELSE IF cs[i].instructorId # user.id
         THEN Direct(403, "Only course instructor or admin can perform this action") @@ [course |-> Absent]
    ELSE Pass @@ [course |-> cs[i].id]

\* the outcome and what the middleware left in req.enrollment
authorizeEnrolledStudent(user, param, field, es) ==
  IF user = NoIdentity THEN Direct(401, "Authentication required") @@ [enrollment |-> Absent]
  ELSE LET i == EnrollmentFindOne(es, Or(param, field), user.id) IN
    IF i = 0 THEN Direct(403, "You must be enrolled in this course") @@ [enrollment |-> Absent]
    ELSE Pass @@ [enrollment |-> es[i].id]

\* A condition of authorizeAny: a role literal, a predicate with what calling it
\* does, or a value that is neither a string nor a function.
Conditions ==
  {[kind |-> "role", role |-> r, does |-> ""] : r \in {"instructor", "admin"}}
  \cup {[kind |-> "fn", role |-> "", does |-> d] : d \in {"truthy", "falsy", "throws"}}
  \cup {[kind |-> "other", role |-> "", does |-> ""]}

Matches(c, user) ==
  \/ c.kind = "role" /\ user.role = c.role
  \/ c.kind = "fn" /\ c.does = "truthy"

\* the loop with the try around it instead of inside it: a throw ends the search
RECURSIVE anyLoopThrowEnds(_, _, _)
anyLoopThrowEnds(conds, i, user) ==
  IF i > Len(conds) THEN [authorized |-> FALSE, evaluated |-> Len(conds)]
  ELSE IF conds[i].kind = "fn" /\ conds[i].does = "throws" THEN [authorized |-> FALSE, evaluated |-> i]
  ELSE IF Matches(conds[i], user) THEN [authorized |-> TRUE, evaluated |-> i]
  ELSE anyLoopThrowEnds(conds, i + 1, user)

\* the for loop from condition i on: [authorized, how many conditions were looked at]
RECURSIVE anyLoop(_, _, _)
anyLoop(conds, i, user) ==
  IF i > Len(conds) THEN [authorized |-> FALSE, evaluated |-> Len(conds)]
  ELSE IF Matches(conds[i], user) THEN [authorized |-> TRUE, evaluated |-> i]
  ELSE anyLoop(conds, i + 1, user)

authorizeAny(conds, user) ==
  IF user = NoIdentity THEN Direct(401, "Authentication required") @@ [evaluated |-> 0]
  ELSE IF ~anyLoop(conds, 1, user).authorized
       THEN Direct(403, "Insufficient permissions") @@ [evaluated |-> anyLoop(conds, 1, user).evaluated]
  ELSE Pass @@ [evaluated |-> anyLoop(conds, 1, user).evaluated]

Quiet == UNCHANGED <<mockStore, pending, courses, enrollments, now, ticks, nodeEnv, users, tokens, streak>>

Authorize(roles, user) ==
  /\ out' = authorize(roles, user) @@ [op |-> "authorize", who |-> user, roles |-> roles]
  /\ Quiet

MockAuthorize(roles, user) ==
  /\ out' = mockAuthorize(roles, user, nodeEnv) @@ [op |-> "mockAuthorize", who |-> user, roles |-> roles]
  /\ Quiet

AuthorizeOwnerOrAdmin(user, param, field) ==
  /\ out' = authorizeOwnerOrAdmin(user, param, field)
            @@ [op |-> "authorizeOwnerOrAdmin", who |-> user, param |-> param, field |-> field]
  /\ Quiet

IsOwnerOrAdmin(user, paramUserId, paramId, bodyUserId) ==
  /\ out' = isOwnerOrAdmin(user, paramUserId, paramId, bodyUserId, nodeEnv)
            @@ [op |-> "isOwnerOrAdmin", who |-> user, paramUserId |-> paramUserId,
                paramId |-> paramId, field |-> bodyUserId]
  /\ Quiet

AuthorizeCourseInstructorOrAdmin(user, param, field) ==
  /\ out' = authorizeCourseInstructorOrAdmin(user, param, field, courses)
            @@ [op |-> "authorizeCourseInstructorOrAdmin", who |-> user, param |-> param, field |-> field]
  /\ Quiet

AuthorizeEnrolledStudent(user, param, field) ==
  /\ out' = authorizeEnrolledStudent(user, param, field, enrollments)
            @@ [op |-> "authorizeEnrolledStudent", who |-> user, param |-> param, field |-> field]
  /\ Quiet

AuthorizeAny(conds, user) ==
  /\ out' = authorizeAny(conds, user) @@ [op |-> "authorizeAny", who |-> user, conds |-> conds]
  /\ Quiet

Init ==
  /\ now = StartMs
  /\ ticks = 0
  /\ nodeEnv \in {"development", "production"}
  /\ users = <<>>
  /\ tokens = [e \in Emails |-> NoToken]
  /\ streak = [e \in Emails |-> 0]
  /\ courses = <<>>
  /\ enrollments = <<>>
  /\ mockStore = MockControllerUsers
  /\ pending = {}
  /\ out = [op |-> "none", status |-> 0, next |-> FALSE, user |-> "", message |-> ""]

Next ==
  \/ \E e \in RegEmails, p \in {"Abcdef12", "weak"}, r \in {"student", "root"} : Register(e, p, r)
  \/ \E e \in Emails, p \in Passwords : Login(e, p)
  \/ \E h \in {NoHeader} \cup {[scheme |-> "Bearer", rest |-> <<tok>>] : tok \in Held \cup {GarbageToken}} :
        Authenticate(h)
  \/ \E h \in {[scheme |-> "Bearer", rest |-> <<tok>>] : tok \in Held \cup {GarbageToken}} :
        OptionalAuth(h)
  \/ \E e \in RegEmails, c \in Passwords, n \in Passwords \cup {"weak"}, m \in Passwords :
        ChangePassword(e, c, n, m)
  \/ \E e \in RegEmails : DeactivateAccount(e)
  \/ \E e \in RegEmails : GetMe(e)
  \/ \E d \in TickSteps : Tick(d)

Spec == Init /\ [][Next]_vars

\* the two authenticate middlewares in front of a protected route, on any request
NextGate ==
  \/ \E e \in RegEmails, r \in {"student", "admin"} : Register(e, "Abcdef12", r)
  \/ \E e \in RegEmails : Login(e, "Abcdef12")
  \/ \E e \in RegEmails : DeactivateAccount(e)
  \/ \E d \in GateTickSteps : Tick(d)
  \/ \E h \in Headers(Held) : Authenticate(h)
  \/ \E h \in Headers(MockTokens), c \in {NoToken, MockToken(<<"mock", "jwt", "token", "1", "1000">>)} :
        MockAuthenticate(h, c)
  \/ \E h \in Headers(MockTokens), c \in {NoToken, MockToken(<<"mock", "jwt", "token", "1", "1000">>)} :
        MockOptionalAuth(h, c)

SpecGate == Init /\ [][NextGate]_vars

\* the authorization middlewares, on any identity and request, over any small store
MaxConds == 2
CourseIds == {"c1", "c2"}
CourseStores ==
  {<<[id |-> "c1", instructorId |-> "u2"]>>,
   <<[id |-> "c1", instructorId |-> "u2"], [id |-> "c2", instructorId |-> "u1"]>>}
EnrollmentStores ==
  {<<>>,
   <<[id |-> "e1", courseId |-> "c1", userId |-> "u1", status |-> "completed"],
     [id |-> "e2", courseId |-> "c2", userId |-> "u1", status |-> "active"],
     [id |-> "e3", courseId |-> "c1", userId |-> "u4", status |-> "active"]>>}

CondSeqs == UNION {[1..n -> Conditions] : n \in 0..MaxConds}

InitAuthz ==
  /\ now = StartMs
  /\ ticks = 0
  /\ nodeEnv \in {"development", "production"}
  /\ users = <<>>
  /\ tokens = [e \in Emails |-> NoToken]
  /\ streak = [e \in Emails |-> 0]
  /\ courses \in CourseStores
  /\ enrollments \in EnrollmentStores
  /\ mockStore = MockControllerUsers
  /\ pending = {}
  /\ out = [op |-> "none", status |-> 0, next |-> FALSE, user |-> "", message |-> ""]

NextAuthz ==
  \/ \E rs \in SUBSET Roles, u \in Identities \cup {NoIdentity} : Authorize(rs, u)
  \/ \E rs \in SUBSET Roles, u \in MockIdentities \cup {NoMockIdentity} : MockAuthorize(rs, u)
  \/ \E u \in Identities \cup {NoIdentity}, p \in IdStrings \cup {Absent}, f \in IdStrings \cup {Absent} :
        AuthorizeOwnerOrAdmin(u, p, f)
  \/ \E u \in MockIdentities \cup {NoMockIdentity}, pu \in NumStrings \cup {Absent},
        pi \in {"2", Absent}, f \in {"1", "2", Absent} : IsOwnerOrAdmin(u, pu, pi, f)
  \/ \E u \in Identities \cup {NoIdentity}, p \in CourseIds \cup {"c9", Absent}, f \in {"c1", Absent} :
        AuthorizeCourseInstructorOrAdmin(u, p, f)
  \/ \E u \in Identities \cup {NoIdentity}, p \in CourseIds \cup {"c9", Absent}, f \in {"c1", Absent} :
        AuthorizeEnrolledStudent(u, p, f)
  \/ \E cs \in CondSeqs, u \in Identities \cup {NoIdentity} : AuthorizeAny(cs, u)

SpecAuthz == InitAuthz /\ [][NextAuthz]_vars

\* registration and profile requests of both controllers, interleaved at the await
NextAccounts ==
  \/ \E e \in RegEmails, p \in {"Abcdef12", "weak"}, r \in {"student", "root"} : RegisterBegin(e, p, r)
  \/ \E e \in RegEmails : SocialLoginBegin(e)
  \/ \E r \in pending : Finish(r)
  \/ \E h \in RegEmails, e \in Emails : UpdateMe(h, e)
  \/ \E n \in {"", "N"}, e \in Emails, p \in {"Abcdef12"} :
        MockRegister(n, e, p, IF e \in RegEmails THEN "student" ELSE "root")
  \/ \E e \in Emails \cup {"", "demo@example.com"} : MockUpdateMe(e)

SpecAccounts == Init /\ [][NextAccounts]_vars

\* reset and verification links: issued, presented, and left to expire
LinkTokens == {randomBytes(n) : n \in RawNames \cup {"u1"}}
ResetTickSteps == {500, ResetMs}

NextTokens ==
  \/ \E e \in RegEmails : Register(e, "Abcdef12", "student")
  \/ \E e \in Emails, n \in RawNames, d \in BOOLEAN : ForgotPassword(e, n, d)
  \/ \E t \in LinkTokens, p \in {"Xyzuvw34", "weak"}, c \in {"Xyzuvw34"} : ResetPassword(t, p, c)
  \/ \E t \in LinkTokens : VerifyEmail(t)
  \/ \E e \in RegEmails, n \in RawNames, d \in BOOLEAN : ResendEmailVerification(e, n, d)
  \/ \E d \in ResetTickSteps : Tick(d)

SpecTokens == Init /\ [][NextTokens]_vars

\* a token is issued and presented while the identity stays as it is
NextSession ==
  \/ \E e \in RegEmails : Register(e, "Abcdef12", "student")
  \/ \E e \in RegEmails : Login(e, "Abcdef12")
  \/ \E tok \in Held : Authenticate([scheme |-> "Bearer", rest |-> <<tok>>])
  \/ \E e \in Emails, p \in {"Abcdef12"} : MockRegister("N", e, p, "student")
  \/ \E e \in Emails \cup {"", "demo@example.com"}, p \in {"Abcdef12"} : MockLogin(e, p)
  \/ \E e \in {"", "a@x.com"}, p \in {"Abcdef12"} : RouteLogin(e, p)
  \/ MockPresent

SpecSession == Init /\ [][NextSession]_vars

\* requests for one account, the logins interleaved at their await
NextRace ==
  \/ \E e \in RegEmails : Register(e, "Abcdef12", "student")
  \/ \E e \in RegEmails, p \in {"Abcdef12", "Wrong000"} : LoginBegin(e, p)
  \/ \E r \in pending : LoginFinish(r)
  \/ \E e \in RegEmails : DeactivateAccount(e)
  \/ \E e \in RegEmails : ChangePassword(e, "Abcdef12", "Xyzuvw34", "Xyzuvw34")
  \/ \E tok \in Held : Authenticate([scheme |-> "Bearer", rest |-> <<tok>>])

SpecRace == Init /\ [][NextRace]_vars

\* the error pipeline, on any error value and request path
StatusCodes == {200, 302, 399, 400, 401, 404, 409, 423, 499, 500, 503}

Urls == {ApiUrl, <<"/", "a", "p", "i", "x">>, <<"/", "f", "o", "o">>, <<"/">>}

\* errors of the libraries the handler names, with and without the properties
\* it reads, and errors that carry a status code of their own
ForeignErrors ==
  {ErrorValue(n, o, "boom") :
     n \in {"Error", "CastError", "ValidationError", "JsonWebTokenError", "TokenExpiredError"},
     o \in BOOLEAN}
  \cup {[ErrorValue("ValidationError", TRUE, "invalid") EXCEPT !.errors = "map"]}
  \cup {[ErrorValue("MongoError", TRUE, "E11000") EXCEPT !.code = 11000, !.errmsg = m] :
          m \in {"undefined", "quoted", "unquoted"}}
  \cup {[ErrorValue("SyntaxError", FALSE, "Unexpected token") EXCEPT !.statusCode = 400]}

Errors == ForeignErrors \cup {AppError("M", c) : c \in {400, 404, 500}}

\* process.env.NODE_ENV; "" is the variable not being set
Unset == ""
Envs == {Unset, "development", "production"}

\* GET /health
Health ==
  /\ out' = [op |-> "health", status |-> 200, next |-> FALSE, user |-> "", message |-> "",
             body |-> [status |-> "OK", timestamp |-> Timestamp,
                       environment |-> IF nodeEnv # Unset THEN nodeEnv ELSE "development"]]
  /\ Quiet

\* new AppError(message, statusCode) in any handler
Construct(statusCode) ==
  /\ out' = [op |-> "AppError", status |-> 0, next |-> FALSE, user |-> "", message |-> "M",
             err |-> AppError("M", statusCode)]
  /\ Quiet

\* next(err), or a throw inside catchAsync, on a request for url
HandleError(err, url) ==
  /\ LET res == globalErrorHandler(err, url, nodeEnv) IN
     out' = [op |-> "globalErrorHandler", status |-> res.statusCode, next |-> FALSE, user |-> "",
             message |-> err.message, by |-> "globalErrorHandler", body |-> res.body,
             threw |-> res.threw, err |-> err, url |-> url]
  /\ Quiet

\* app.use('*', notFound): a path no route of the application matched
NotFound(url) ==
  /\ LET err == notFound(url)
         res == globalErrorHandler(err, url, nodeEnv) IN
     out' = [op |-> "notFound", status |-> res.statusCode, next |-> FALSE, user |-> "",
             message |-> err.message, by |-> "globalErrorHandler", body |-> res.body,
             threw |-> res.threw, err |-> err, url |-> url]
  /\ Quiet

\* router.use('*', ...) of routes/index.js: an unknown path under /api
ApiNotFound(url) ==
  /\ out' = [op |-> "apiNotFound", status |-> 404, next |-> FALSE, user |-> "",
             message |-> "", by |-> "router",
             body |-> [error |-> "API endpoint not found", path |-> url, method |-> "GET",
                       timestamp |-> Timestamp],
             url |-> url]
  /\ Quiet

NextErr ==
  \/ \E c \in StatusCodes : Construct(c)
  \/ \E err \in Errors, url \in Urls : HandleError(err, url)
  \/ \E url \in Urls \ {ApiUrl} : NotFound(url)
  \/ ApiNotFound(ApiUrl \o <<"/", "x">>)
  \/ Health

InitErr ==
  /\ now = StartMs
  /\ ticks = 0
  /\ nodeEnv \in Envs
  /\ users = <<>>
  /\ tokens = [e \in Emails |-> NoToken]
  /\ streak = [e \in Emails |-> 0]
  /\ courses = <<>>
  /\ enrollments = <<>>
  /\ mockStore = MockControllerUsers
  /\ pending = {}
  /\ out = [op |-> "none", status |-> 0, next |-> FALSE, user |-> "", message |-> ""]

SpecErr == InitErr /\ [][NextErr]_vars

----------------------------------------------------------------------------
(* Properties *)

\* The request carried no bearer token: no jwt cookie, and either no Bearer
\* scheme or no token word after it.
NoBearerToken(sent) ==
  /\ sent.cookie \in {"undefined", "empty"}
  /\ \/ sent.scheme \notin {"Bearer", "Bearerx"}
     \/ sent.word \in {"undefined", "empty"}

C2_EarlierTokensRejected ==
  (/\ out.op = "authenticate" /\ out.sent.scheme = "Bearer" /\ out.sent.word = "jwt"
   /\ out.id.known /\ out.id.active /\ out.id.issuedBefore)
    => out.status = 401

\* C3: the 5th wrong password in a row sets lockUntil to 2 hours after that
\* attempt, and until then every login for the account is answered 423,
\* whatever the password.
C3_LockSet ==
  (out.op = "login" /\ out.reason = "password" /\ streak[out.email] = 5)
    => users[IndexByEmail(users, out.email)].lockUntil = out.at + 2 * 60 * 60 * 1000

C3_LockedStep ==
  (/\ ticks' = ticks /\ out'.op = "login"
   /\ streak[out'.email] = 5
   /\ IndexByEmail(users, out'.email) # NoUser
   /\ now < users[IndexByEmail(users, out'.email)].lockUntil)
    => out'.status = 423

C3_LockAfterFiveFailures == [](C3_LockSet) /\ [][C3_LockedStep]_vars

C3_Witness ==
  /\ out.op = "login" /\ out.status = 423 /\ streak[out.email] = 5
  /\ comparePassword(out.password, users[IndexByEmail(users, out.email)].password)

\* C4: after a successful login the stored identity has loginAttempts = 0 and
\* no lockUntil, and an account is only ever locked with 5 wrong passwords
\* since its last successful login.
C4_SuccessResetsAttempts ==
  /\ (out.op = "login" /\ out.status = 200)
       => /\ users[IndexByEmail(users, out.email)].loginAttempts = 0
          /\ users[IndexByEmail(users, out.email)].lockUntil = NoTime
  /\ \A i \in 1..Len(users) : users[i].lockUntil # NoTime => streak[users[i].email] >= 5

C4_Witness ==
  /\ out.op = "login" /\ out.status = 200 /\ out.before = 4
  /\ users[IndexByEmail(users, out.email)].loginAttempts = 0

\* C5: with an identity on the request, authorize passes control on exactly
\* when the identity's role is in the allowed list, and answers 403 otherwise.
C5_RoleCheck ==
  (out.op \in {"authorize", "mockAuthorize"} /\ out.who.role # "")
    => /\ out.next <=> out.who.role \in out.roles
       /\ ~out.next => out.status = 403

C5_Witness ==
  /\ out.op = "authorize" /\ out.who.role = "student" /\ out.roles = {"admin"}
  /\ out.status = 403 /\ ~out.next

\* C6: a non-admin identity is answered 403 when the route parameter names
\* another identity, whatever the body says, and is passed on when it names the
\* identity itself; the body names the owner only when the route has no such
\* parameter; an admin always passes.
C6_OwnerOrAdmin ==
  /\ (out.op = "authorizeOwnerOrAdmin" /\ out.who # NoIdentity)
       => /\ out.who.role = "admin" => out.next
          /\ (out.who.role # "admin" /\ out.param # Absent)
               => IF out.who.id = out.param THEN out.next ELSE (out.status = 403 /\ ~out.next)
          /\ (out.who.role # "admin" /\ out.param = Absent)
               => IF out.who.id = out.field THEN out.next ELSE (out.status = 403 /\ ~out.next)
  /\ (out.op = "isOwnerOrAdmin" /\ out.who # NoMockIdentity)
       => /\ out.who.role = "admin" => out.next
          /\ (out.who.role # "admin" /\ out.paramUserId # Absent)
               => IF out.who.id = parseInt(out.paramUserId) THEN out.next
                  ELSE (out.status = 403 /\ ~out.next)
          /\ (out.who.role # "admin" /\ out.paramUserId = Absent /\ out.paramId # Absent)
               => IF out.who.id = parseInt(out.paramId) THEN out.next
                  ELSE (out.status = 403 /\ ~out.next)

C6_Witness ==
  /\ out.op = "authorizeOwnerOrAdmin" /\ out.who.id = "u1" /\ out.who.role = "student"
  /\ out.param = "u2" /\ out.field = "u1"
  /\ out.status = 403

\* the course a request names, and what the stores hold for it
NamedCourse == IF out.param # Absent THEN out.param ELSE out.field
CourseExists == \E i \in 1..Len(courses) : courses[i].id = NamedCourse
IsInstructor == \E i \in 1..Len(courses) : courses[i].id = NamedCourse /\ courses[i].instructorId = out.who.id
ActivelyEnrolled ==
  \E i \in 1..Len(enrollments) :
    /\ enrollments[i].courseId = NamedCourse /\ enrollments[i].userId = out.who.id
    /\ enrollments[i].status = "active"

\* C7 (as claimed): for every identity both checks answer 404 when the course
\* does not exist and 403 when it exists and the relationship fails.
C7_MissingIs404 ==
  /\ (out.op = "authorizeCourseInstructorOrAdmin" /\ out.who # NoIdentity)
       => /\ ~CourseExists => out.status = 404
          /\ (CourseExists /\ ~IsInstructor) => out.status = 403
  /\ (out.op = "authorizeEnrolledStudent" /\ out.who # NoIdentity)
       => /\ ~CourseExists => out.status = 404
          /\ (CourseExists /\ ~ActivelyEnrolled) => out.status = 403

\* C7 (amended): for an identity that is not an admin the instructor check
\* answers 404 for a missing course and 403 for another instructor's course;
\* the enrollment check answers 403 whenever there is no active enrollment,
\* whether the course exists or not.
C7_RelationshipCheck ==
  /\ (out.op = "authorizeCourseInstructorOrAdmin" /\ out.who # NoIdentity /\ out.who.role # "admin")
       => /\ ~CourseExists => (out.status = 404 /\ ~out.next)
          /\ (CourseExists /\ ~IsInstructor) => (out.status = 403 /\ ~out.next)
  /\ (out.op = "authorizeEnrolledStudent" /\ out.who # NoIdentity /\ ~ActivelyEnrolled)
       => (out.status = 403 /\ ~out.next)

C7_Witness ==
  /\ out.op = "authorizeCourseInstructorOrAdmin" /\ out.who.role = "instructor"
  /\ ~CourseExists /\ out.status = 404

\* C8 (as claimed): whenever a relationship check passes control on, the
\* resource it is about is attached to the request.
C8_ResourceAttached ==
  /\ (out.op = "authorizeCourseInstructorOrAdmin" /\ out.next) => out.course # Absent
  /\ (out.op = "authorizeEnrolledStudent" /\ out.next) => out.enrollment # Absent

\* C9: authorizeAny passes control on exactly when some condition matches the
\* identity, looks at no condition after the first match, skips a predicate
\* that throws, and answers 403 when no condition matches.
C9_Hit(c) ==
  \/ c.kind = "role" /\ c.role = out.who.role
  \/ c.kind = "fn" /\ c.does = "truthy"

C9_AuthorizeAny ==
  (out.op = "authorizeAny" /\ out.who # NoIdentity)
    => /\ out.next <=> \E i \in 1..Len(out.conds) : C9_Hit(out.conds[i])
       /\ out.next => /\ C9_Hit(out.conds[out.evaluated])
                      /\ \A j \in 1..(out.evaluated - 1) : ~C9_Hit(out.conds[j])
       /\ ~out.next => (out.status = 403 /\ out.evaluated = Len(out.conds))

C9_Witness ==
  /\ out.op = "authorizeAny" /\ out.who.role = "admin" /\ Len(out.conds) = 2
  /\ out.conds[1].does = "throws" /\ out.conds[2].kind = "role"
  /\ out.next /\ out.evaluated = 2

\* C10 (as claimed): a valid token of an identity whose lockUntil is in the
\* future is answered 423 by authenticate.
C10_LockedRejected ==
  (/\ out.op = "authenticate" /\ out.sent.scheme = "Bearer" /\ out.sent.word = "jwt"
   /\ out.id.known /\ out.id.locked)
    => out.status = 423

\* C11 (as claimed): optionalAuth attaches an identity only to a request whose
\* token names a known, active, unlocked identity and was not issued before
\* its last password change; every other request is passed on once with no
\* identity and no error.
C11_OptionalAsMandatory ==
  out.op = "optionalAuth" =>
    /\ out.next /\ out.status = 200
    /\ out.user # "" =>
         (out.id.known /\ out.id.active /\ ~out.id.locked /\ ~out.id.issuedBefore)

C13_FailBelow500 ==
  out.op = "AppError" =>
    out.err.status = (IF out.err.statusCode < 500 THEN "fail" ELSE "error")

\* C13: the label of an AppError with an HTTP status code (100..599) is 'fail'
\* when the code is 4xx and 'error' otherwise.
C13_FailFor4xx ==
  (out.op = "AppError" /\ out.err.statusCode \in 100..599) =>
    out.err.status = (IF out.err.statusCode \in 400..499 THEN "fail" ELSE "error")

C13_Witness ==
  out.op = "AppError" /\ out.err.statusCode = 399 /\ out.err.status = "error"

\* C14 (as claimed): a CastError, a duplicate-key error (code 11000) and a
\* ValidationError are answered 400, a JsonWebTokenError and a
\* TokenExpiredError 401, in development and in production.
C14_TranslatedStatus ==
  (out.op = "globalErrorHandler" /\ out.err.statusCode = 0) =>
    /\ (out.err.name \in {"CastError", "ValidationError"} \/ out.err.code = 11000)
         => out.status = 400
    /\ out.err.name \in {"JsonWebTokenError", "TokenExpiredError"} => out.status = 401

C16_NeverThrows ==
  out.op \in {"globalErrorHandler", "notFound"} => (~out.threw /\ out.status \in 400..599)

C18_OnlyPipelineResponds ==
  out.status \in 400..599 =>
    /\ out.by = "globalErrorHandler"
    /\ {"status", "message", "timestamp"} \subseteq DOMAIN out.body
    /\ out.body.status \in {"fail", "error"}

\* C19: a well-formed register request for an email that is in the store when
\* it arrives is answered "already exists" (400 by the JWT-backed controller,
\* 409 by the mock one), gets no token, and leaves both stores as they were.
C19_DuplicateRejected ==
  [][(out' # out /\ out'.op \in {"register", "mockRegister"} /\ out'.valid /\ out'.taken) =>
       /\ out'.status = (IF out'.op = "register" THEN 400 ELSE 409)
       /\ out'.message = "User with this email already exists"
       /\ "token" \notin DOMAIN out'.body
       /\ users' = users /\ mockStore' = mockStore /\ tokens' = tokens]_vars

C19_Witness ==
  /\ out.op = "register" /\ out.taken /\ out.valid /\ out.status = 400
  /\ Len(users) = 1 /\ pending = {}

\* no two identities of a store have the same email
UniqueEmails(us) == \A i, j \in 1..Len(us) : us[i].email = us[j].email => i = j

\* C20 (as claimed): whatever register, socialLogin and updateMe requests ran,
\* and however they interleaved, no store has two identities with one email.
C20_EmailsUnique == UniqueEmails(users) /\ UniqueEmails(mockStore)

\* C21 (as claimed): every stored identity, of either controller, has a role
\* in {student, instructor, admin}.
C21_RolesEnumerated ==
  /\ \A i \in 1..Len(users) : users[i].role \in Roles
  /\ \A i \in 1..Len(mockStore) : mockStore[i].role \in Roles

\* C22 (as claimed): a reset token an identity has stored, presented before its
\* expiry with a valid password and an equal confirmation, is accepted; a token
\* no identity has stored (used already, or never issued) and an expired one
\* are rejected with 400.
C22_ResetRoundTrip ==
  (out.op = "resetPassword" /\ out.valid) =>
    IF out.fresh THEN out.status = 200 ELSE out.status = 400

\* C23 (as claimed): the verification token of the link register sent, and the
\* one of the link resendEmailVerification sent, are accepted by verifyEmail.
C23_VerifyRoundTrip ==
  (out.op = "verifyEmail" /\ (out.registered \/ out.resent)) => out.status = 200

\* C24 (as claimed): with NODE_ENV not set, the health endpoint reports
\* 'development' and the error handler answers as in development, with the
\* error's message and stack.
C24_UnsetIsDevelopment ==
  nodeEnv = Unset =>
    /\ out.op = "health" => out.body.environment = "development"
    /\ (out.op = "globalErrorHandler" /\ IsApi(out.url) /\ ~out.threw) =>
         ("stack" \in DOMAIN out.body /\ out.body.message = out.err.message)

\* C25 (as claimed): a token returned by a successful register or login and
\* presented to the mandatory authenticate of the same variant, the identity
\* unchanged, is not rejected as an invalid token or as naming no user.
C25_IssuedTokenAccepted ==
  /\ (out.op = "authenticate" /\ out.sent.word = "jwt") =>
        out.message \notin {"Invalid token", "User no longer exists"}
  /\ (out.op = "mockAuthenticate" /\ "issuedBy" \in DOMAIN out) =>
        out.message \notin {"Invalid token. Please log in again!",
                            "The user belonging to this token no longer exists."}

\* C26 (as claimed): whatever the interleaving, no request brings back what a
\* completed deactivateAccount or changePassword replaced: an inactive
\* identity stays inactive, and a stored password changes only by
\* changePassword.
C26_NoStaleOverwrite ==
  [][\A i \in 1..Len(users) :
        /\ ~users[i].isActive => ~users'[i].isActive
        /\ users'[i].password # users[i].password => out'.op = "changePassword"]_vars

\* C27 (as claimed): whatever the interleaving, a completed failed login
\* leaves the stored counter one above what it was, and five completed
\* failures in a row leave lockUntil set.
C27_NoLostAttempt ==
  /\ (out.op = "login" /\ out.reason = "password" /\ "stored" \in DOMAIN out) =>
        users[IndexByEmail(users, out.email)].loginAttempts = out.stored + 1
  /\ \A i \in 1..Len(users) :
        streak[users[i].email] >= MaxAttempts => users[i].lockUntil # NoTime

\* C28 (as claimed): a failed login made when the previous lock has elapsed
\* (the current time is at or past lockUntil) stores loginAttempts = 1 and no
\* lockUntil, so it does not lock the account again.
C28_RestartAfterLock ==
  [][\A i \in 1..Len(users) :
        (/\ users[i].lockUntil # NoTime /\ now >= users[i].lockUntil
         /\ now' = now
         /\ out'.op = "login" /\ out'.reason = "password" /\ out'.email = users[i].email)
        => /\ users'[i].loginAttempts = 1
           /\ users'[i].lockUntil = NoTime]_vars

\* C29: with logins handled one at a time, an identity has a lockUntil exactly
\* when its loginAttempts is 5 or more.
C29_LockIffFive ==
  \A i \in 1..Len(users) : users[i].lockUntil # NoTime <=> users[i].loginAttempts >= MaxAttempts

C29_Witness ==
  /\ out.op = "login" /\ out.reason = "password" /\ out.before = MaxAttempts - 1
  /\ users[IndexByEmail(users, out.email)].loginAttempts = MaxAttempts
  /\ users[IndexByEmail(users, out.email)].lockUntil # NoTime

\* C30: the token that register, changePassword or resetPassword answers with
\* is not refused by authenticate as issued before the password change the
\* same request stored, and is accepted while the clock has not moved on.
C30_FreshTokenAccepted ==
  (out.op \in {"register", "changePassword", "resetPassword"} /\ out.status \in {200, 201})
    => LET res == authenticate([scheme |-> "Bearer", rest |-> <<out.body.token>>], users, now) IN
       /\ res.message # "Password recently changed. Please login again."
       /\ out.body.token.at = now => res.next

C30_Witness ==
  /\ out.op = "changePassword" /\ out.status = 200
  /\ users[IndexById(users, out.user)].passwordChangedAt = now
  /\ out.body.token.at = now
  /\ authenticate([scheme |-> "Bearer", rest |-> <<out.body.token>>], users, now).next

====
